---- MODULE Spec2Model ----
(***************************************************************************)
(* parse_csv_line of test_csv_parser.py: a character-index loop that       *)
(* splits one line of comma-separated text into fields, honouring          *)
(* double-quoted regions and doubled quotes inside them.  The harness at   *)
(* the bottom of the file calls it once per entry of test_cases.           *)
(*                                                                         *)
(* The downloaders: the element processing of the three download scripts   *)
(* (proc), download_all_bars and download_region of download_bars.py       *)
(* (blocks), and OSMBarDownloader.make_overpass_request of                 *)
(* download_osm_bars.py (osm).                                             *)
(*                                                                         *)
(* A string is a sequence of one-character strings; the index i is the     *)
(* source's 0-based index, so line[i] of the source is CharAt(line, i).    *)
(***************************************************************************)
EXTENDS Naturals, Sequences, FiniteSets, TLC

QUOTE == "\""
COMMA == ","

(* Bounds of the model. *)
MaxLen == 5
MaxRowLen == 3
MaxFields == 2
MaxCallLen == 1

Chars == {"a", "b", COMMA, QUOTE}
ContentChars == {"a", COMMA, QUOTE}
CallChars == {COMMA, QUOTE}

StringsUpTo(S, n) == UNION {[1..m -> S] : m \in 0..n}

VARIABLES test_cases, rows, test_i, line, i, current, fields, in_quotes, pc,
          proc, blocks, osm

vars ==
    <<test_cases, rows, test_i, line, i, current, fields, in_quotes, pc,
      proc, blocks, osm>>

parserVars ==
    <<test_cases, rows, test_i, line, i, current, fields, in_quotes, pc>>

Callers == DOMAIN test_cases

(***************************************************************************)
(* The parser: one activation's local variables are a frame.               *)
(***************************************************************************)
CharAt(ln, idx) == ln[idx + 1]

Frame(c) ==
    [line |-> line[c], i |-> i[c], current |-> current[c],
     fields |-> fields[c], in_quotes |-> in_quotes[c]]

(* Lines 5-9: the locals at the start of a call.  prev is the frame the   *)
(* caller's previous call left behind; the code takes nothing from it.    *)
LocalsStale(prev, ln) ==
    [line |-> ln, i |-> 0, current |-> <<>>, fields |-> <<>>,
     in_quotes |-> prev.in_quotes]

Locals(prev, ln) ==
    [line |-> ln, i |-> 0, current |-> <<>>, fields |-> <<>>,
     in_quotes |-> FALSE]

(* Line 14, the operands evaluated before line[i + 1] is read.            *)
PeekGuardNoBound(st) == st.in_quotes

PeekGuard(st) == st.in_quotes /\ st.i + 1 < Len(st.line)

(* The indices of line one iteration reads (lines 11 and 14).             *)
Reads(st) ==
    {st.i} \cup
    (IF CharAt(st.line, st.i) = QUOTE /\ PeekGuard(st) THEN {st.i + 1} ELSE {})

(* An index outside the string raises IndexError.                         *)
RaisesIndexError(st) == \E r \in Reads(st) : r >= Len(st.line)

(* Line 14. *)
IsEscapedQuoteNever(st) == FALSE

IsEscapedQuote(st) == PeekGuard(st) /\ CharAt(st.line, st.i + 1) = QUOTE

(* Lines 16-17. *)
EscapedQuoteTwice(st) ==
    [st EXCEPT !.current = @ \o <<QUOTE, QUOTE>>, !.i = @ + 1]

EscapedQuote(st) == [st EXCEPT !.current = Append(@, QUOTE), !.i = @ + 1]

(* Line 20. *)
ToggleQuoteKeep(st) ==
    [st EXCEPT !.in_quotes = ~@, !.current = Append(@, QUOTE)]

ToggleQuote(st) == [st EXCEPT !.in_quotes = ~@]

(* Line 21. *)
IsDelimiterAnywhere(st) == CharAt(st.line, st.i) = COMMA

IsDelimiter(st) == CharAt(st.line, st.i) = COMMA /\ ~st.in_quotes

(* Lines 22-23. *)
EndFieldNoReset(st) == [st EXCEPT !.fields = Append(@, st.current)]

EndField(st) ==
    [st EXCEPT !.fields = Append(@, st.current), !.current = <<>>]

(* Line 25. *)
AppendCharUnquotedOnly(st) ==
    IF st.in_quotes THEN st
    ELSE [st EXCEPT !.current = Append(@, CharAt(st.line, st.i))]

AppendChar(st) == [st EXCEPT !.current = Append(@, CharAt(st.line, st.i))]

(* Line 27. *)
Advance(st) == [st EXCEPT !.i = @ + 1]

(* Lines 11-27: one iteration of the while loop. *)
LoopBody(st) ==
    Advance(
        IF CharAt(st.line, st.i) = QUOTE
        THEN IF IsEscapedQuote(st) THEN EscapedQuote(st) ELSE ToggleQuote(st)
        ELSE IF IsDelimiter(st) THEN EndField(st) ELSE AppendChar(st))

(* Line 29. *)
FinishNonEmpty(st) ==
    IF st.current = <<>> THEN st
    ELSE [st EXCEPT !.fields = Append(@, st.current)]

Finish(st) == [st EXCEPT !.fields = Append(@, st.current)]

(***************************************************************************)
(* Inputs.                                                                 *)
(***************************************************************************)
BoundedLines == StringsUpTo(Chars, MaxLen)

(* The writer of the quoted form: every inner quote doubled, the content  *)
(* wrapped in quotes, the wrapped fields joined with commas.               *)
RECURSIVE DoubleQuotes(_)
DoubleQuotes(s) ==
    IF s = <<>> THEN <<>>
    ELSE (IF Head(s) = QUOTE THEN <<QUOTE, QUOTE>> ELSE <<Head(s)>>)
         \o DoubleQuotes(Tail(s))

WrapField(s) == <<QUOTE>> \o DoubleQuotes(s) \o <<QUOTE>>

RECURSIVE WriteRow(_)
WriteRow(cs) ==
    IF cs = <<>> THEN <<>>
    ELSE IF Len(cs) = 1 THEN WrapField(cs[1])
    ELSE WrapField(cs[1]) \o <<COMMA>> \o WriteRow(Tail(cs))

(* Rows of at most f fields whose contents have at most n characters in   *)
(* all.                                                                    *)
RECURSIVE RowsOf(_, _)
RowsOf(f, n) ==
    IF f = 0 THEN {<<>>}
    ELSE UNION {{<<s>> \o r : r \in RowsOf(f - 1, n - Len(s))} :
                    s \in StringsUpTo(ContentChars, n)}

ContentSeqs == UNION {RowsOf(f, MaxRowLen) : f \in 0..MaxFields}

CallLines == StringsUpTo(CallChars, MaxCallLen)

CallCases ==
    {<<l>> : l \in CallLines} \cup {<<l, m>> : l \in CallLines, m \in CallLines}

(***************************************************************************)
(* The state of a program that is not running.                             *)
(***************************************************************************)
ProcOff == [pc |-> "off"]

BlocksOff == [pc |-> "off"]

OsmOff == [pc |-> "off"]

(***************************************************************************)
(* The state machine of the parser and its harness.                        *)
(***************************************************************************)
Setup(cases, written) ==
    /\ proc = ProcOff
    /\ blocks = BlocksOff
    /\ osm = OsmOff
    /\ test_cases = cases
    /\ rows = written
    /\ test_i = [c \in DOMAIN cases |-> 0]
    /\ line = [c \in DOMAIN cases |-> <<>>]
    /\ i = [c \in DOMAIN cases |-> 0]
    /\ current = [c \in DOMAIN cases |-> <<>>]
    /\ fields = [c \in DOMAIN cases |-> <<>>]
    /\ in_quotes = [c \in DOMAIN cases |-> FALSE]
    /\ pc = [c \in DOMAIN cases |-> "idle"]

(* One caller, one test line: raw text, or a row written in quoted form.  *)
Init ==
    \/ \E l \in BoundedLines :
           Setup([c \in {"main"} |-> <<l>>], [c \in {"main"} |-> <<{}>>])
    \/ \E cs \in ContentSeqs :
           Setup([c \in {"main"} |-> <<WriteRow(cs)>>],
                 [c \in {"main"} |-> <<{cs}>>])

(* Two callers, each with its own list of one or two lines.               *)
InitCalls ==
    \E a \in CallCases, b \in CallCases :
        Setup([c \in {"c1", "c2"} |-> IF c = "c1" THEN a ELSE b],
              [c \in {"c1", "c2"} |->
                  [j \in 1..Len(IF c = "c1" THEN a ELSE b) |-> {}]])

Store(c, st) ==
    /\ line' = [line EXCEPT ![c] = st.line]
    /\ i' = [i EXCEPT ![c] = st.i]
    /\ current' = [current EXCEPT ![c] = st.current]
    /\ fields' = [fields EXCEPT ![c] = st.fields]
    /\ in_quotes' = [in_quotes EXCEPT ![c] = st.in_quotes]

(* Lines 42-43 and 3-9: the harness takes its next line and calls.        *)
Call(c) ==
    /\ pc[c] \in {"idle", "done"}
    /\ test_i[c] < Len(test_cases[c])
    /\ test_i' = [test_i EXCEPT ![c] = @ + 1]
    /\ Store(c, Locals(Frame(c), test_cases[c][test_i[c] + 1]))
    /\ pc' = [pc EXCEPT ![c] = "loop"]
    /\ UNCHANGED <<test_cases, rows>>

(* Lines 10-27: the loop test holds and the body runs once.               *)
Iterate(c) ==
    /\ pc[c] = "loop"
    /\ i[c] < Len(line[c])
    /\ IF RaisesIndexError(Frame(c))
       THEN /\ pc' = [pc EXCEPT ![c] = "raised"]
            /\ UNCHANGED <<line, i, current, fields, in_quotes>>
       ELSE /\ Store(c, LoopBody(Frame(c)))
            /\ UNCHANGED pc
    /\ UNCHANGED <<test_cases, rows, test_i>>

(* Lines 10, 29-30: the loop test fails; the last field is appended and   *)
(* the fields are returned.                                                *)
Return(c) ==
    /\ pc[c] = "loop"
    /\ ~(i[c] < Len(line[c]))
    /\ Store(c, Finish(Frame(c)))
    /\ pc' = [pc EXCEPT ![c] = "done"]
    /\ UNCHANGED <<test_cases, rows, test_i>>

CallStep == (\E c \in Callers : Call(c)) /\ UNCHANGED <<proc, blocks, osm>>

IterateStep ==
    (\E c \in Callers : Iterate(c)) /\ UNCHANGED <<proc, blocks, osm>>

ReturnStep ==
    (\E c \in Callers : Return(c)) /\ UNCHANGED <<proc, blocks, osm>>

Next == CallStep \/ IterateStep \/ ReturnStep

Spec == Init /\ [][Next]_vars

SpecCalls == InitCalls /\ [][Next]_vars

(* A call, once started, runs to its end: the interpreter keeps executing *)
(* the loop and the return.                                                *)
SpecLive ==
    Init /\ [][Next]_vars /\ WF_vars(IterateStep) /\ WF_vars(ReturnStep)

(***************************************************************************)
(* Element processing.  A Python value that may be None is a sequence:     *)
(* <<>> for None, <<v>> for the value v.  A string that a tag lookup does  *)
(* not find is "", which the code's "or" treats like a missing one.        *)
(***************************************************************************)
MaxCoord == 1
MaxElements == 2

None == <<>>

(* Python's truth value of a number or None: None and 0 are false.         *)
Truthy(v) == v # None /\ v[1] # 0

ElementTypes == {"node", "way", "relation"}

SampleTags ==
    {[name |-> "", name_en |-> "", amenity |-> ""],
     [name |-> "n", name_en |-> "", amenity |-> "pub"],
     [name |-> "", name_en |-> "e", amenity |-> "cafe"]}

(* An element of an Overpass answer: a node carries lat and lon, a way or *)
(* relation carries a center (has_center) with lat and lon, or none.       *)
Elements ==
    {e \in [type : ElementTypes, id : {1, 2}, has_center : BOOLEAN,
            lat : 0..MaxCoord, lon : 0..MaxCoord, tags : SampleTags] :
        /\ e.type = "node" => ~e.has_center
        /\ (e.type # "node" /\ ~e.has_center) => (e.lat = 0 /\ e.lon = 0)}

(* download_osm_bars.py lines 103-110, download_bars_simple.py lines       *)
(* 51-58, download_bars.py lines 137-144 and 223-230: lat and lon.         *)
Coordinates(e) ==
    IF e.type = "node" THEN [lat |-> <<e.lat>>, lon |-> <<e.lon>>]
    ELSE IF e.type \in {"way", "relation"} /\ e.has_center
    THEN [lat |-> <<e.lat>>, lon |-> <<e.lon>>]
    ELSE [lat |-> None, lon |-> None]

(* "if not lat or not lon": the element is skipped.                        *)
Skipped(e) == ~Truthy(Coordinates(e).lat) \/ ~Truthy(Coordinates(e).lon)

(* a or b for strings. *)
Or(a, b) == IF a # "" THEN a ELSE b

(* download_osm_bars.py lines 100-140. *)
process_element(e) ==
    IF Skipped(e) THEN <<>>
    ELSE <<[id |-> e.id,
            name |-> Or(e.tags.name, Or(e.tags.name_en, "Unnamed Establishment")),
            type |-> IF e.tags.amenity \in {"pub", "biergarten"}
                     THEN e.tags.amenity ELSE "bar",
            lat |-> Coordinates(e).lat[1],
            lon |-> Coordinates(e).lon[1],
            tags |-> e.tags]>>

(* download_bars_simple.py lines 49-82, one element of the loop. *)
process_elements_one(e) ==
    IF Skipped(e) THEN <<>>
    ELSE <<[id |-> e.id,
            name |-> Or(e.tags.name, Or(e.tags.name_en, "Unnamed Bar")),
            type |-> IF e.tags.amenity \in {"pub", "biergarten"}
                     THEN e.tags.amenity ELSE "bar",
            lat |-> Coordinates(e).lat[1],
            lon |-> Coordinates(e).lon[1],
            tags |-> e.tags]>>

(* download_bars.py lines 132-162 (and 218-248), one element of the loop. *)
blocks_one(e) ==
    IF Skipped(e) THEN <<>>
    ELSE <<[id |-> e.id,
            name |-> Or(e.tags.name, "Unnamed Bar"),
            type |-> IF e.tags.amenity \in {"bar", ""} THEN "bar"
                     ELSE IF e.tags.amenity = "pub" THEN "pub"
                     ELSE "biergarten",
            lat |-> Coordinates(e).lat[1],
            lon |-> Coordinates(e).lon[1],
            tags |-> e.tags]>>

Scripts == {"download_osm_bars", "download_bars_simple", "download_bars"}

ProcessOne(script, e) ==
    IF script = "download_osm_bars" THEN process_element(e)
    ELSE IF script = "download_bars_simple" THEN process_elements_one(e)
    ELSE blocks_one(e)

(* The bars a script makes of a list of elements. *)
RECURSIVE ProcessAll(_, _)
ProcessAll(script, es) ==
    IF es = <<>> THEN <<>>
    ELSE ProcessOne(script, Head(es)) \o ProcessAll(script, Tail(es))

(* A script is handed the elements of an answer and loops over them.       *)
ParserOff ==
    /\ test_cases = <<>>
    /\ rows = <<>>
    /\ test_i = <<>>
    /\ line = <<>>
    /\ i = <<>>
    /\ current = <<>>
    /\ fields = <<>>
    /\ in_quotes = <<>>
    /\ pc = <<>>

InitProcess ==
    /\ ParserOff
    /\ blocks = BlocksOff
    /\ osm = OsmOff
    /\ \E script \in Scripts, es \in StringsUpTo(Elements, MaxElements) :
           proc = [pc |-> "loop", script |-> script, elements |-> es,
                   k |-> 0, bars |-> <<>>]

(* The loop body for the next element. *)
ProcessElement ==
    /\ proc.pc = "loop"
    /\ proc.k < Len(proc.elements)
    /\ proc' = [proc EXCEPT
                   !.bars = @ \o ProcessOne(proc.script, proc.elements[proc.k + 1]),
                   !.k = @ + 1]
    /\ UNCHANGED <<parserVars, blocks, osm>>

(* The loop is over: the bars are returned. *)
ProcessReturn ==
    /\ proc.pc = "loop"
    /\ proc.k = Len(proc.elements)
    /\ proc' = [proc EXCEPT !.pc = "done"]
    /\ UNCHANGED <<parserVars, blocks, osm>>

NextProcess == ProcessElement \/ ProcessReturn

SpecProcess == InitProcess /\ [][NextProcess]_vars

(***************************************************************************)
(* download_bars.py: download_all_bars loops over the regions, skips those *)
(* whose region file exists and calls download_region for the others; the  *)
(* region files and data/bars_data.json outlive a run.  A request is       *)
(* answered with a status, or raises.                                      *)
(***************************************************************************)
NumRegions == 2
MaxRetries == 4
MaxRuns == 2

max_retries_default == 3

Regions == 1..NumRegions

(* What a request can come to: HTTP 200 whose region file is saved, HTTP  *)
(* 200 whose region file cannot be written (open or json.dump raises      *)
(* OSError), HTTP 504, another status, a request timeout, another request *)
(* error.                                                                  *)
Outcomes ==
    {[status |-> "200", raises |-> "no"],
     [status |-> "200", raises |-> "OSError"],
     [status |-> "504", raises |-> "no"],
     [status |-> "500", raises |-> "no"],
     [status |-> "none", raises |-> "Timeout"],
     [status |-> "none", raises |-> "ConnectionError"]}

(* The elements of the one bar of region r, and the answers a region can   *)
(* give: no element, or its bar.                                           *)
BarOf(r) ==
    [type |-> "node", id |-> r, has_center |-> FALSE, lat |-> 1, lon |-> 1,
     tags |-> [name |-> "n", name_en |-> "", amenity |-> "pub"]]

RegionAnswers(r) == {<<>>, <<BarOf(r)>>}

(* Line 63: except requests.exceptions.Timeout. *)
CaughtAsTimeout(x) == x = "Timeout"

(* Line 73: except Exception. *)
CaughtAsException(x) == x \in {"Timeout", "ConnectionError", "OSError"}

(* Lines 51 and 65: attempt < max_retries - 1. *)
RetriesLeft(attempt, max_retries) == attempt + 1 < max_retries

(* Line 52. *)
Wait504(attempt) == (attempt + 1) * 10

(* Line 66. *)
WaitTimeout(attempt) == (attempt + 1) * 5

(* Lines 49 and 63: the answers after which the loop may go on.            *)
RetriedOutcomeAnyStatus(o) ==
    o.raises = "Timeout" \/ (o.raises = "no" /\ o.status # "200")

RetriedOutcome(o) ==
    (o.raises = "no" /\ o.status = "504") \/ CaughtAsTimeout(o.raises)

(* Lines 100-101 and 12-29: the locals of a run and of a call.             *)
FreshRun(b) ==
    [b EXCEPT !.pc = "regions", !.region_i = 0, !.all_elements = <<>>,
              !.successful_regions = 0, !.attempt = 0, !.answers = <<>>,
              !.waits = <<>>, !.result = None, !.count = None]

InitBlocks ==
    /\ ParserOff
    /\ proc = ProcOff
    /\ osm = OsmOff
    /\ \E m \in 0..MaxRetries :
       \E sv \in [Regions -> UNION {RegionAnswers(r) : r \in Regions}] :
           /\ \A r \in Regions : sv[r] \in RegionAnswers(r)
           /\ blocks =
                  [pc |-> "regions", run |-> 1, max_retries |-> m,
                   server |-> sv, files |-> [r \in Regions |-> None],
                   bars_file |-> None, region_i |-> 0, all_elements |-> <<>>,
                   successful_regions |-> 0, attempt |-> 0, answers |-> <<>>,
                   waits |-> <<>>, result |-> None, count |-> None,
                   resumed |-> FALSE]

(* The region the loop of download_all_bars is at. *)
Region == blocks.region_i + 1

(* Lines 103-110: the region file exists, the region is skipped.           *)
SkipRegion ==
    /\ blocks.pc = "regions"
    /\ blocks.region_i < NumRegions
    /\ blocks.files[Region] # None
    /\ blocks' = [blocks EXCEPT !.region_i = @ + 1]
    /\ UNCHANGED <<parserVars, proc, osm>>

(* Lines 112 and 12-29: download_region is called; with no attempt to     *)
(* make (line 77) it returns the empty list at once.                       *)
CallRegion ==
    /\ blocks.pc = "regions"
    /\ blocks.region_i < NumRegions
    /\ blocks.files[Region] = None
    /\ blocks' =
          [blocks EXCEPT
              !.attempt = 0, !.answers = <<>>, !.waits = <<>>,
              !.result = IF blocks.max_retries = 0 THEN <<<<>>>> ELSE None,
              !.pc = IF blocks.max_retries = 0 THEN "returned" ELSE "request"]
    /\ UNCHANGED <<parserVars, proc, osm>>

(* How an outcome reads in the history of a call: its status, or the      *)
(* exception raised.                                                       *)
Label(o) == IF o.raises = "no" THEN o.status ELSE o.raises

(* Lines 30-75: one attempt: the request is sent and its outcome handled;  *)
(* answers is the history of the requests of the call, waits that of its   *)
(* time.sleep calls.                                                       *)
Attempt(o) ==
    LET sent == [blocks EXCEPT !.answers = Append(@, Label(o))]
    IN
    IF o.status = "200" /\ o.raises = "no"
    THEN [sent EXCEPT !.files[Region] = <<blocks.server[Region]>>,
                      !.result = <<blocks.server[Region]>>,
                      !.pc = "returned"]
    ELSE IF RetriedOutcome(o)
    THEN IF RetriesLeft(blocks.attempt, blocks.max_retries)
         THEN [sent EXCEPT
                  !.waits = Append(@, IF o.status = "504"
                                      THEN Wait504(blocks.attempt)
                                      ELSE WaitTimeout(blocks.attempt)),
                  !.attempt = @ + 1]
         ELSE [sent EXCEPT !.result = <<<<>>>>, !.pc = "returned"]
    ELSE IF o.raises = "no" \/ CaughtAsException(o.raises)
    THEN [sent EXCEPT !.result = <<<<>>>>, !.pc = "returned"]
    ELSE [sent EXCEPT !.pc = "raised"]

Request ==
    /\ blocks.pc = "request"
    /\ blocks.attempt < blocks.max_retries
    /\ \E o \in Outcomes : blocks' = Attempt(o)
    /\ UNCHANGED <<parserVars, proc, osm>>

(* Lines 112-120: the elements returned are added to all_elements.         *)
AfterRegion ==
    /\ blocks.pc = "returned"
    /\ blocks' =
          [blocks EXCEPT
              !.all_elements = @ \o blocks.result[1],
              !.successful_regions =
                  IF blocks.result[1] # <<>> THEN @ + 1 ELSE @,
              !.region_i = @ + 1,
              !.pc = "regions"]
    /\ UNCHANGED <<parserVars, proc, osm>>

(* Lines 122-190: the loop is over; without elements the run returns 0,   *)
(* else the bars are made of all_elements and written to                   *)
(* data/bars_data.json.                                                    *)
FinishRun ==
    /\ blocks.pc = "regions"
    /\ blocks.region_i = NumRegions
    /\ blocks' =
          IF blocks.all_elements = <<>>
          THEN [blocks EXCEPT !.count = <<0>>, !.pc = "done"]
          ELSE [blocks EXCEPT
                   !.bars_file = <<ProcessAll("download_bars", blocks.all_elements)>>,
                   !.count = <<Len(ProcessAll("download_bars", blocks.all_elements))>>,
                   !.pc = "done"]
    /\ UNCHANGED <<parserVars, proc, osm>>

(* The user interrupts the run (Ctrl-C): the process ends, the files stay. *)
Interrupt ==
    /\ blocks.pc \in {"regions", "request", "returned"}
    /\ blocks.run < MaxRuns
    /\ blocks' = [blocks EXCEPT !.pc = "interrupted"]
    /\ UNCHANGED <<parserVars, proc, osm>>

(* Lines 287-288 and 273-281: the script is run again.                     *)
RunAgain ==
    /\ blocks.pc \in {"interrupted", "done"}
    /\ blocks.run < MaxRuns
    /\ blocks' = [FreshRun(blocks) EXCEPT
                      !.run = @ + 1,
                      !.resumed = (blocks.pc = "interrupted")]
    /\ UNCHANGED <<parserVars, proc, osm>>

NextBlocks ==
    \/ SkipRegion
    \/ CallRegion
    \/ Request
    \/ AfterRegion
    \/ FinishRun
    \/ Interrupt
    \/ RunAgain

SpecBlocks == InitBlocks /\ [][NextBlocks]_vars

(***************************************************************************)
(* download_osm_bars.py: OSMBarDownloader.make_overpass_request.  A        *)
(* request is answered with a status, or raises a requests exception; the  *)
(* body of an HTTP 200 answer is JSON, which response.json() decodes.      *)
(***************************************************************************)
max_retries == 3
delay_between_requests == 2

OsmOutcomes == {"200", "429", "500", "Timeout", "RequestException"}

OsmBodies == {<<>>, <<BarOf(1)>>, <<BarOf(1), BarOf(2)>>}

RECURSIVE Pow2(_)
Pow2(n) == IF n = 0 THEN 1 ELSE 2 * Pow2(n - 1)

(* Lines 78-79: the answer is returned. *)
ReturnsBodyNever(status) == FALSE

ReturnsBody(status) == status = "200"

(* Lines 80-84: the extra wait when rate limited. *)
RateLimitWait(attempt) == 60 * (attempt + 1)

(* Lines 93-94: the wait before the next attempt. *)
RetryWait(attempt) == delay_between_requests * Pow2(attempt)

InitOsm ==
    /\ ParserOff
    /\ proc = ProcOff
    /\ blocks = BlocksOff
    /\ \E body \in OsmBodies :
           osm = [pc |-> "attempt", attempt |-> 0, body |-> body,
                  answers |-> <<>>, sleeps |-> <<>>, result |-> None]

(* Lines 67-91: the loop has an attempt left; the request is sent and its  *)
(* outcome handled.  answers is the history of the requests, sleeps that   *)
(* of the time.sleep calls.                                                *)
OsmAttempt ==
    /\ osm.pc = "attempt"
    /\ osm.attempt < max_retries
    /\ \E o \in OsmOutcomes :
           osm' =
               IF ReturnsBody(o)
               THEN [osm EXCEPT !.answers = Append(@, o),
                                !.result = <<osm.body>>,
                                !.pc = "returned"]
               ELSE IF o = "429"
               THEN [osm EXCEPT !.answers = Append(@, o),
                                !.sleeps = Append(@, RateLimitWait(osm.attempt)),
                                !.pc = "failed"]
               ELSE [osm EXCEPT !.answers = Append(@, o), !.pc = "failed"]
    /\ UNCHANGED <<parserVars, proc, blocks>>

(* Lines 93-96: after a failed attempt that is not the last, the wait.     *)
OsmBackoff ==
    /\ osm.pc = "failed"
    /\ osm' =
          IF osm.attempt + 1 < max_retries
          THEN [osm EXCEPT !.sleeps = Append(@, RetryWait(osm.attempt)),
                           !.attempt = @ + 1, !.pc = "attempt"]
          ELSE [osm EXCEPT !.attempt = @ + 1, !.pc = "attempt"]
    /\ UNCHANGED <<parserVars, proc, blocks>>

(* Line 98: the loop is over: the exception is raised.                     *)
OsmRaise ==
    /\ osm.pc = "attempt"
    /\ ~(osm.attempt < max_retries)
    /\ osm' = [osm EXCEPT !.pc = "raised"]
    /\ UNCHANGED <<parserVars, proc, blocks>>

NextOsm == OsmAttempt \/ OsmBackoff \/ OsmRaise

SpecOsm == InitOsm /\ [][NextOsm]_vars

(***************************************************************************)
(* Reference notions the properties are stated with.                       *)
(***************************************************************************)
Last(s) == s[Len(s)]

RECURSIVE Concat(_)
Concat(ss) == IF ss = <<>> THEN <<>> ELSE Head(ss) \o Concat(Tail(ss))

RECURSIVE Count(_, _)
Count(s, ch) ==
    IF s = <<>> THEN 0
    ELSE (IF Head(s) = ch THEN 1 ELSE 0) + Count(Tail(s), ch)

HasQuote(s) == \E p \in 1..Len(s) : s[p] = QUOTE

(* The role of every character of a line, by the toggle and escaped-quote *)
(* rules read from the start of the line: "open" and "close" for a quote  *)
(* that enters or leaves quoted mode, "esc1" and "esc2" for the two       *)
(* quotes of an escaped pair, "delim" for a comma read in unquoted mode,   *)
(* "text" for anything else.                                               *)
RECURSIVE RolesFrom(_, _, _)
RolesFrom(ln, p, inq) ==
    IF p > Len(ln) THEN <<>>
    ELSE IF ln[p] = QUOTE
    THEN IF inq /\ p < Len(ln) /\ ln[p + 1] = QUOTE
         THEN <<"esc1", "esc2">> \o RolesFrom(ln, p + 2, inq)
         ELSE <<IF inq THEN "close" ELSE "open">> \o RolesFrom(ln, p + 1, ~inq)
    ELSE IF ln[p] = COMMA /\ ~inq
    THEN <<"delim">> \o RolesFrom(ln, p + 1, inq)
    ELSE <<"text">> \o RolesFrom(ln, p + 1, inq)

Roles(ln) == RolesFrom(ln, 1, FALSE)

(* The line ends in quoted mode: more quotes open a region than close one. *)
EndsQuoted(ln) == Count(Roles(ln), "open") > Count(Roles(ln), "close")

(* Splitting on commas: the text before the first comma, then the split   *)
(* of what follows it.                                                     *)
RECURSIVE SplitOnCommas(_)
SplitOnCommas(s) ==
    IF \A p \in 1..Len(s) : s[p] # COMMA THEN <<s>>
    ELSE LET p == CHOOSE q \in 1..Len(s) :
                      s[q] = COMMA /\ \A r \in 1..(q - 1) : s[r] # COMMA
         IN  <<SubSeq(s, 1, p - 1)>> \o SplitOnCommas(SubSeq(s, p + 1, Len(s)))

(* A string with its double-quotes and commas deleted. *)
RECURSIVE Plain(_)
Plain(s) ==
    IF s = <<>> THEN <<>>
    ELSE (IF Head(s) \in {QUOTE, COMMA} THEN <<>> ELSE <<Head(s)>>)
         \o Plain(Tail(s))

(* The characters of ln at positions p..n that the roles rl make content:  *)
(* text, and one quote for each escaped pair.                              *)
RECURSIVE TextOf(_, _, _, _)
TextOf(ln, rl, p, n) ==
    IF p > n THEN <<>>
    ELSE (IF rl[p] \in {"text", "esc1"} THEN <<ln[p]>> ELSE <<>>)
         \o TextOf(ln, rl, p + 1, n)

(* The last position of rl holding role r, 0 when there is none. *)
LastPos(rl, r) ==
    IF \E p \in 1..Len(rl) : rl[p] = r
    THEN CHOOSE p \in 1..Len(rl) :
             rl[p] = r /\ \A q \in (p + 1)..Len(rl) : rl[q] # r
    ELSE 0

(* s with each pair of adjacent quotes replaced by one quote. *)
RECURSIVE Halve(_)
Halve(s) ==
    IF Len(s) >= 2 /\ s[1] = QUOTE /\ s[2] = QUOTE
    THEN <<QUOTE>> \o Halve(SubSeq(s, 3, Len(s)))
    ELSE IF s = <<>> THEN <<>>
    ELSE <<Head(s)>> \o Halve(Tail(s))

IsSuffix(t, s) ==
    Len(t) <= Len(s) /\ SubSeq(s, Len(s) - Len(t) + 1, Len(s)) = t

Returned(c) == pc[c] = "done"

(* The loop of caller c is about to read a character. *)
Reading(c) == pc[c] = "loop" /\ i[c] < Len(line[c])

(* The step changes the locals of caller c. *)
Moved(c) == Frame(c)' # Frame(c)

(* Caller c is about to read a quote in quoted mode with a quote after it. *)
EscapedPairAhead(c) ==
    /\ Reading(c)
    /\ CharAt(line[c], i[c]) = QUOTE
    /\ in_quotes[c]
    /\ i[c] + 1 < Len(line[c])
    /\ CharAt(line[c], i[c] + 1) = QUOTE

(* The double-quotes in what caller c has built or returned. *)
QuotesBuilt(c) ==
    IF pc[c] = "done" THEN Count(Concat(fields[c]), QUOTE)
    ELSE Count(Concat(fields[c]) \o current[c], QUOTE)

(***************************************************************************)
(* C1: the number of fields returned is 1 + the number of commas read in   *)
(* unquoted mode, the quote state being the one the toggle and             *)
(* escaped-quote rules give from the start of the line.                    *)
(***************************************************************************)
C1_FieldCount ==
    \A c \in Callers :
        Returned(c) => Len(fields[c]) = 1 + Count(Roles(line[c]), "delim")

(* A line with a comma inside and a comma outside a quoted region has been *)
(* parsed.                                                                 *)
C1_Witness ==
    \E c \in Callers :
        /\ Returned(c)
        /\ Count(Roles(line[c]), "delim") >= 1
        /\ Count(line[c], COMMA) > Count(Roles(line[c]), "delim")

(***************************************************************************)
(* C2: a line without any double-quote parses to its split on commas,      *)
(* fields in order and unchanged; without commas too, to the one field     *)
(* that is the whole line.                                                 *)
(***************************************************************************)
C2_PlainSplit ==
    \A c \in Callers :
        (Returned(c) /\ ~HasQuote(line[c])) =>
            /\ fields[c] = SplitOnCommas(line[c])
            /\ Count(line[c], COMMA) = 0 => fields[c] = <<line[c]>>

(* A quote-free line of two commas and some text has been parsed.          *)
C2_Witness ==
    \E c \in Callers :
        /\ Returned(c)
        /\ ~HasQuote(line[c])
        /\ Count(line[c], COMMA) = 2
        /\ Len(line[c]) >= 4

(***************************************************************************)
(* C8: the characters other than double-quote and comma reach the fields   *)
(* in the same order and number: deleting quotes and commas from the line  *)
(* read so far gives what deleting them from the fields built so far       *)
(* gives, and so for the whole line once the fields are returned.          *)
(***************************************************************************)
C8_ContentPreserved ==
    \A c \in Callers :
        /\ pc[c] = "loop" =>
               Plain(SubSeq(line[c], 1, i[c]))
                   = Plain(Concat(fields[c]) \o current[c])
        /\ Returned(c) => Plain(line[c]) = Plain(Concat(fields[c]))

(* Two different plain characters, one read in quoted mode and one in      *)
(* unquoted mode, have been returned.                                      *)
C8_Witness ==
    \E c \in Callers :
        /\ Returned(c)
        /\ \E p, q \in 1..Len(line[c]) :
               /\ p < q
               /\ line[c][p] = "a" /\ line[c][q] = "b"
               /\ Count(SubSeq(Roles(line[c]), 1, p), "open")
                      > Count(SubSeq(Roles(line[c]), 1, p), "close")
               /\ Count(SubSeq(Roles(line[c]), 1, q), "open")
                      = Count(SubSeq(Roles(line[c]), 1, q), "close")

(***************************************************************************)
(* C9: the empty line parses to exactly one empty field, and every result  *)
(* has at least one field.                                                 *)
(***************************************************************************)
C9_AtLeastOneField ==
    \A c \in Callers :
        Returned(c) =>
            /\ Len(fields[c]) >= 1
            /\ line[c] = <<>> => fields[c] = << <<>> >>

(* The empty line has been parsed. *)
C9_Witness == \E c \in Callers : Returned(c) /\ line[c] = <<>>

(***************************************************************************)
(* C3 as stated: every sequence of field contents, written in quoted form, *)
(* is parsed back to exactly that sequence.                                *)
(***************************************************************************)
C3_RoundTripAnyRow ==
    \A c \in Callers :
        Returned(c) => \A cs \in rows[c][test_i[c]] : fields[c] = cs

(***************************************************************************)
(* C3, amended: every sequence of at least one field content, written in   *)
(* quoted form, is parsed back to exactly that sequence.                   *)
(***************************************************************************)
C3_RoundTrip ==
    \A c \in Callers :
        Returned(c) =>
            \A cs \in rows[c][test_i[c]] : cs # <<>> => fields[c] = cs

(* A written row of two fields, one holding a comma and one a quote, has   *)
(* been parsed.                                                            *)
C3_Witness ==
    \E c \in Callers :
        /\ Returned(c)
        /\ \E cs \in rows[c][test_i[c]] :
               /\ Len(cs) = 2
               /\ Count(Concat(cs), COMMA) >= 1
               /\ Count(Concat(cs), QUOTE) >= 1

(***************************************************************************)
(* C4: no call raises; the index stays within the line, every character    *)
(* read lies inside the line, every iteration moves the index forward, and *)
(* every call that has started returns its fields.                         *)
(***************************************************************************)
C4_Total ==
    /\ [](\A c \in Callers :
            /\ pc[c] # "raised"
            /\ i[c] <= Len(line[c])
            /\ Reading(c) => \A r \in Reads(Frame(c)) : r < Len(line[c]))
    /\ [][\A c \in Callers :
            (Reading(c) /\ Moved(c)) => i'[c] > i[c] /\ pc'[c] = "loop"]_vars
    /\ (pc["main"] = "loop") ~> (pc["main"] = "done" /\ fields["main"] # <<>>)

(* A call on a line of three quotes that ends on a quote, still in quoted  *)
(* mode, has returned.                                                     *)
C4_Witness ==
    \E c \in Callers :
        /\ Returned(c)
        /\ Count(line[c], QUOTE) = 3
        /\ in_quotes[c]
        /\ Last(line[c]) = QUOTE

(***************************************************************************)
(* C5: a quote read in quoted mode with a quote after it appends exactly   *)
(* one quote to the current field, consumes both characters and stays in   *)
(* quoted mode; no other step adds a quote to what is built, so the quotes *)
(* of the returned fields are one per escaped pair of the line.            *)
(***************************************************************************)
C5_EscapedQuote ==
    /\ [][\A c \in Callers :
            /\ (EscapedPairAhead(c) /\ Moved(c)) =>
                   /\ current'[c] = Append(current[c], QUOTE)
                   /\ fields'[c] = fields[c]
                   /\ i'[c] = i[c] + 2
                   /\ in_quotes'[c]
                   /\ pc'[c] = "loop"
            /\ QuotesBuilt(c)' > QuotesBuilt(c) =>
                   /\ EscapedPairAhead(c)
                   /\ QuotesBuilt(c)' = QuotesBuilt(c) + 1]_vars
    /\ [](\A c \in Callers :
            Returned(c) =>
                Count(Concat(fields[c]), QUOTE) = Count(Roles(line[c]), "esc1"))

(* Fields holding a quote have been returned for a line with an escaped    *)
(* pair.                                                                   *)
C5_Witness ==
    \E c \in Callers :
        /\ Returned(c)
        /\ Count(Roles(line[c]), "esc1") >= 1
        /\ Count(Concat(fields[c]), QUOTE) >= 1

(***************************************************************************)
(* C6: a quote read in unquoted mode switches to quoted mode and appends   *)
(* nothing, whatever precedes or follows it; a quote read in quoted mode   *)
(* that is the last character or is not followed by a quote switches to    *)
(* unquoted mode and appends nothing.                                      *)
(***************************************************************************)
C6_QuoteToggle ==
    [][\A c \in Callers :
          (Reading(c) /\ CharAt(line[c], i[c]) = QUOTE /\ Moved(c)) =>
              /\ ~in_quotes[c] =>
                     /\ in_quotes'[c]
                     /\ current'[c] = current[c]
                     /\ fields'[c] = fields[c]
                     /\ i'[c] = i[c] + 1
              /\ (in_quotes[c] /\ ~EscapedPairAhead(c)) =>
                     /\ ~in_quotes'[c]
                     /\ current'[c] = current[c]
                     /\ fields'[c] = fields[c]
                     /\ i'[c] = i[c] + 1]_vars

(* A quote in the middle of a field, followed by a quote that ends the     *)
(* line, has been read: the first opened and the second closed.            *)
C6_Witness ==
    \E c \in Callers :
        /\ Returned(c)
        /\ Len(line[c]) >= 3
        /\ LET n == Len(line[c]) IN
               /\ line[c][n - 2] \notin {QUOTE, COMMA}
               /\ Roles(line[c])[n - 1] = "open"
               /\ Roles(line[c])[n] = "close"

(***************************************************************************)
(* C7: the field being built at the end of the line is always appended as  *)
(* the last field: it is the content read since the last delimiter, empty  *)
(* when the line ends with a delimiter.  When the line ends in quoted      *)
(* mode, the last field ends with everything after the last opening quote, *)
(* commas kept and escaped pairs collapsed.                                *)
(***************************************************************************)
C7_EndOfLine ==
    \A c \in Callers :
        Returned(c) =>
            LET ln == line[c]
                rl == Roles(ln)
                n == Len(ln)
                tail == SubSeq(ln, LastPos(rl, "open") + 1, n)
            IN  /\ fields[c] # <<>>
                /\ Last(fields[c]) = TextOf(ln, rl, LastPos(rl, "delim") + 1, n)
                /\ (n > 0 /\ rl[n] = "delim") => Last(fields[c]) = <<>>
                /\ in_quotes[c] = EndsQuoted(ln)
                /\ in_quotes[c] =>
                       /\ IsSuffix(Halve(tail), Last(fields[c]))
                       /\ Count(Last(fields[c]), COMMA) >= Count(tail, COMMA)

(* A line that ends in quoted mode with a comma after its last opening     *)
(* quote has been returned.                                                *)
C7_Witness ==
    \E c \in Callers :
        /\ Returned(c)
        /\ in_quotes[c]
        /\ Count(SubSeq(line[c], LastPos(Roles(line[c]), "open") + 1,
                        Len(line[c])), COMMA) >= 1
        /\ Len(fields[c]) >= 2

(***************************************************************************)
(* C10: every call starts unquoted with empty accumulators, and two calls  *)
(* on the same line return the same fields whatever their callers parsed   *)
(* before and however the calls interleave.                                *)
(***************************************************************************)
C10_Independent ==
    /\ \A c \in Callers :
           (pc[c] = "loop" /\ i[c] = 0) =>
               ~in_quotes[c] /\ current[c] = <<>> /\ fields[c] = <<>>
    /\ \A c, d \in Callers :
           (Returned(c) /\ Returned(d) /\ line[c] = line[d]) =>
               fields[c] = fields[d]

(* One caller has parsed a line holding a comma right after a line that    *)
(* ended in quoted mode; another has parsed the same line first.           *)
C10_Witness ==
    \E c, d \in Callers :
        /\ Returned(c) /\ test_i[c] = 2
        /\ EndsQuoted(test_cases[c][1])
        /\ Returned(d) /\ test_i[d] = 1
        /\ line[c] = line[d]
        /\ Count(line[c], COMMA) >= 1

(***************************************************************************)
(* Reference notions for the downloaders.                                  *)
(***************************************************************************)
(* The element has coordinates: it is a node, or it carries a center.      *)
HasCoordinates(e) == e.type = "node" \/ e.has_center

(* The bars hold a record with the id, lat and lon of element e.           *)
Recorded(e, bars) ==
    \E b \in 1..Len(bars) :
        bars[b].id = e.id /\ bars[b].lat = e.lat /\ bars[b].lon = e.lon

(***************************************************************************)
(* C14: a script drops an element only when it has no coordinates: every   *)
(* node, and every way or relation with a center, gives a record with its  *)
(* id, lat and lon, whatever the coordinate values, and nothing else is    *)
(* dropped.                                                                *)
(***************************************************************************)
C14_KeepsEveryLocated ==
    proc.pc = "done" =>
        /\ \A j \in 1..Len(proc.elements) :
               HasCoordinates(proc.elements[j]) =>
                   Recorded(proc.elements[j], proc.bars)
        /\ Len(proc.bars) =
               Cardinality({j \in 1..Len(proc.elements) :
                               HasCoordinates(proc.elements[j])})

(***************************************************************************)
(* C11: a call of download_region sends at most max_retries requests,      *)
(* sends a further request only after an HTTP 504 answer or a request      *)
(* timeout, and never raises: it returns the elements of an HTTP 200       *)
(* answer, and the empty list in every other outcome (another status, any  *)
(* other exception, that of saving the answer included, or the retries     *)
(* exhausted).                                                             *)
(***************************************************************************)
C11_RegionRetries ==
    /\ [](blocks.pc # "off" =>
            /\ blocks.pc # "raised"
            /\ Len(blocks.answers) <= blocks.max_retries
            /\ blocks.pc = "returned" =>
                   blocks.result =
                       IF blocks.answers # <<>> /\ Last(blocks.answers) = "200"
                       THEN <<blocks.server[Region]>>
                       ELSE <<<<>>>>)
    /\ [][(blocks.pc = "request" /\ blocks.answers # <<>>
              /\ Len(blocks'.answers) > Len(blocks.answers)) =>
               Last(blocks.answers) \in {"504", "Timeout"}]_vars

(* A call has returned the bar of its region on its third request.         *)
C11_Witness ==
    /\ blocks.pc = "returned"
    /\ Len(blocks.answers) = 3
    /\ Last(blocks.answers) = "200"
    /\ blocks.result # <<<<>>>>

(***************************************************************************)
(* C12: with the default max_retries, a call of download_region answered   *)
(* only by HTTP 504 has waited 10 s, 20 s and 30 s before its retries.     *)
(***************************************************************************)
C12_Backoff ==
    (/\ blocks.pc = "returned"
     /\ blocks.max_retries = max_retries_default
     /\ Len(blocks.answers) = max_retries_default
     /\ \A a \in 1..Len(blocks.answers) : blocks.answers[a] = "504")
        => blocks.waits = <<10, 20, 30>>

(***************************************************************************)
(* C15: when download_all_bars, run again after an interrupted run, has    *)
(* finished, data/bars_data.json holds the bars of every region that has   *)
(* a region file, those of the regions it skipped included.                *)
(***************************************************************************)
C15_ResumeLossless ==
    (blocks.pc = "done" /\ blocks.resumed) =>
        \A r \in Regions :
            blocks.files[r] # None =>
                \A e \in 1..Len(blocks.files[r][1]) :
                    /\ blocks.bars_file # None
                    /\ Recorded(blocks.files[r][1][e], blocks.bars_file[1])

C13_WitnessRaised ==
    /\ osm.pc = "raised"
    /\ osm.answers = <<"429", "500", "RequestException">>

====
